---- MODULE Spec2Model ----
(***************************************************************************)
(* RBot-parser (src/src/lib.rs): a decoder of single IRC protocol lines,   *)
(* built from nom parser combinators.                                      *)
(*                                                                         *)
(* A text is a sequence of one-character strings (<<"a", " ", "\r">>), so  *)
(* that it can be indexed and cut like a byte slice.  Every parser is an   *)
(* operator from the input slice to an IResult: Done (rest, out), Error or *)
(* Incomplete.  The combinators the source takes from nom (tag!,           *)
(* take_until!, take_until_and_consume!, space, chain! and its optional    *)
(* `?` fields) are modelled by what they do on a byte slice with a         *)
(* one-byte needle:                                                        *)
(*   - on the empty slice tag!, take_until! and take_until_and_consume!    *)
(*     answer Incomplete;                                                  *)
(*   - on a non-empty slice without the needle they answer Error;          *)
(*   - space consumes the whole run of ' ' and '\t' bytes;                 *)
(*   - an optional field of chain! turns Error into None and leaves the    *)
(*     input where it was, and passes Incomplete on (AndThen, Optional and *)
(*     OptionalThen below are chain!'s steps).                             *)
(*                                                                         *)
(* Of a ParserError the model keeps the kind: "Incomplete" for the         *)
(* "Incomplete: ..." text parse_message builds from nom's Incomplete, and  *)
(* "Malformed" for the text From<nom::Err> builds from nom's Error.  The   *)
(* lines are one-byte characters, so map_res!(.., from_utf8) never fails.  *)
(***************************************************************************)
EXTENDS Integers, Sequences, FiniteSets, TLC

VARIABLES input, pc, result, text

vars == <<input, pc, result, text>>

\* ------------------------------------------------------------------ bounds

\* The longest line of the exhaustive part of the inputs.
MaxLen == 5

\* The longest body put after a prefix of Heads.
MaxBody == 3

\* The most params of a Message built by hand.
MaxParams == 2

\* ------------------------------------------------------------------ bytes

CR == "\r"
LF == "\n"
TAB == "\t"
SP == " "

\* The bytes the exhaustive inputs are made of.
Alphabet == {":", SP, CR, TAB, "a", "4", "+", "!", "@"}

\* u16::MAX, the largest value of Command::Numeric(u16).
U16Max == 65535

Digits == {"0", "1", "2", "3", "4", "5", "6", "7", "8", "9"}

DigitVal(c) ==
  CASE c = "0" -> 0 [] c = "1" -> 1 [] c = "2" -> 2 [] c = "3" -> 3
    [] c = "4" -> 4 [] c = "5" -> 5 [] c = "6" -> 6 [] c = "7" -> 7
    [] c = "8" -> 8 [] c = "9" -> 9

DigitChar(d) ==
  CASE d = 0 -> "0" [] d = 1 -> "1" [] d = 2 -> "2" [] d = 3 -> "3"
    [] d = 4 -> "4" [] d = 5 -> "5" [] d = 6 -> "6" [] d = 7 -> "7"
    [] d = 8 -> "8" [] d = 9 -> "9"

\* U+000B, the vertical tab (the string holds the byte itself).
VT == ""

\* U+000C, the form feed.
FF == "\f"

\* char::is_whitespace on the one-byte characters (str::split_whitespace):
\* U+0009..U+000D and U+0020.
Whitespace == {SP, TAB, LF, VT, FF, CR}

\* nom::is_space: what nom::space consumes.
is_space(c) == c = SP \/ c = TAB

\* The slice i[from..].
Drop(i, from) == SubSeq(i, from, Len(i))

\* ---------------------------------------------------------------- IResult

Done(rest, out) == [kind |-> "Done", rest |-> rest, out |-> out]
Error == [kind |-> "Error"]
Incomplete == [kind |-> "Incomplete"]

\* ------------------------------------------------------- nom's primitives

\* The least element of a non-empty set of indices.
Least(S) == CHOOSE k \in S : \A j \in S : k <= j

\* The loop of take_until!: the first index >= idx holding the needle, or 0.
FindFrom(i, needle, idx) ==
  LET hits == {k \in idx..Len(i) : i[k] = needle}
  IN IF hits = {} THEN 0 ELSE Least(hits)

\* tag!(needle)
tag(i, needle) ==
  IF Len(i) < 1 THEN Incomplete
  ELSE IF i[1] = needle THEN Done(Tail(i), <<needle>>)
  ELSE Error

\* take_until! as it would be if a missing needle asked for more input:
\* Incomplete where the source's nom answers Error.
take_until_or_more(i, needle) ==
  IF FindFrom(i, needle, 1) = 0 THEN Incomplete
  ELSE Done(Drop(i, FindFrom(i, needle, 1)),
            SubSeq(i, 1, FindFrom(i, needle, 1) - 1))

\* take_until!(needle): the bytes before the needle; the needle stays.
take_until(i, needle) ==
  IF Len(i) < 1 THEN Incomplete
  ELSE LET index == FindFrom(i, needle, 1)
       IN IF index = 0 THEN Error
          ELSE Done(Drop(i, index), SubSeq(i, 1, index - 1))

\* take_until_and_consume!(needle): the same, and the needle is consumed.
take_until_and_consume(i, needle) ==
  IF Len(i) < 1 THEN Incomplete
  ELSE LET index == FindFrom(i, needle, 1)
       IN IF index = 0 THEN Error
          ELSE Done(Drop(i, index + 1), SubSeq(i, 1, index - 1))

\* The loop of nom::space: the first index >= idx that holds no space, or 0.
FirstNonSpace(i, idx) ==
  LET others == {k \in idx..Len(i) : ~is_space(i[k])}
  IN IF others = {} THEN 0 ELSE Least(others)

\* nom::space: one or more ' ' or '\t'.
space(i) ==
  LET idx == FirstNonSpace(i, 1)
  IN IF idx = 0 THEN Done(<<>>, i)
     ELSE IF idx = 1 THEN Error
     ELSE Done(Drop(i, idx), SubSeq(i, 1, idx - 1))

\* ------------------------------------------------------------------ chain!

\* One step of chain!: on Done the rest of the chain F goes on from the
\* step's result; Error and Incomplete end the chain as they are.
AndThen(r, F(_)) == IF r.kind = "Done" THEN F(r) ELSE r

\* An optional field of chain! (`parser?`): Done gives Some and moves on,
\* Error gives None and leaves the input where it was.
Optional(r, i) ==
  IF r.kind = "Done" THEN [some |-> TRUE, val |-> r.out, rest |-> r.rest]
  ELSE [some |-> FALSE, val |-> <<>>, rest |-> i]

\* One optional step of chain!: Incomplete ends the chain; otherwise the
\* rest of the chain F goes on with the Option.
OptionalThen(r, i, F(_)) ==
  IF r.kind = "Incomplete" THEN Incomplete ELSE F(Optional(r, i))

\* ---------------------------------------------------- the named! parsers

\* chain!(nick: take_until!("!") ~ tag!("!"), || nick)
nick_parser(i) ==
  AndThen(take_until(i, "!"), LAMBDA nick :
    AndThen(tag(nick.rest, "!"), LAMBDA t : Done(t.rest, nick.out)))

\* chain!(user: take_until!("@") ~ tag!("@"), || user)
user_parser(i) ==
  AndThen(take_until(i, "@"), LAMBDA user :
    AndThen(tag(user.rest, "@"), LAMBDA t : Done(t.rest, user.out)))

\* take_until!(" ")
word_parser(i) == take_until(i, SP)

\* take_until_and_consume!("\r")
eol(i) == take_until_and_consume(i, CR)

\* chain!(nick: nick_parser ~ user: user_parser ~ host: word_parser, ...)
host_parser(i) ==
  AndThen(nick_parser(i), LAMBDA nick :
    AndThen(user_parser(nick.rest), LAMBDA user :
      AndThen(word_parser(user.rest), LAMBDA host :
        Done(host.rest, <<nick.out, user.out, host.out>>))))

\* --------------------------------------------------------- Prefix, Command

NoPrefix == [variant |-> "None"]
Server(name) == [variant |-> "Server", name |-> name]
User(nick, user, host) ==
  [variant |-> "User", nick |-> nick, user |-> user, host |-> host]

Named(s) == [variant |-> "Named", s |-> s]
Numeric(n) == [variant |-> "Numeric", n |-> n]

Message(prefix, command, params) ==
  [prefix |-> prefix, command |-> command, params |-> params]

\* The digit loop of u16::from_str: the value, or -1 on an invalid digit or
\* on overflow past u16::MAX.
RECURSIVE ParseDigits(_, _, _)
ParseDigits(s, idx, acc) ==
  IF idx > Len(s) THEN acc
  ELSE IF s[idx] \notin Digits THEN -1
  ELSE LET v == acc * 10 + DigitVal(s[idx])
       IN IF v > U16Max THEN -1 ELSE ParseDigits(s, idx + 1, v)

\* <u16 as FromStr>::from_str: an optional '+', then at least one digit;
\* -1 stands for Err.
from_str(s) ==
  IF Len(s) = 0 THEN -1
  ELSE IF s[1] = "+" THEN (IF Len(s) = 1 THEN -1 ELSE ParseDigits(s, 2, 0))
  ELSE ParseDigits(s, 1, 0)

\* The closure of command_parser.
classify(cmd) ==
  IF from_str(cmd) >= 0 THEN Numeric(from_str(cmd)) ELSE Named(cmd)

\* chain!(cmd: word_parser, || match FromStr::from_str(cmd) ...)
command_parser(i) ==
  AndThen(word_parser(i), LAMBDA cmd : Done(cmd.rest, classify(cmd.out)))

\* The closure of prefix_parser: match host_parser(prefix.as_bytes()).
classify_prefix(prefix) ==
  IF host_parser(prefix).kind = "Done"
  THEN User(host_parser(prefix).out[1], host_parser(prefix).out[2],
            host_parser(prefix).out[3])
  ELSE Server(prefix)

\* chain!(tag!(":") ~ prefix: word_parser ~ space, || match host_parser ...)
prefix_parser(i) ==
  AndThen(tag(i, ":"), LAMBDA t :
    AndThen(word_parser(t.rest), LAMBDA prefix :
      AndThen(space(prefix.rest), LAMBDA s :
        Done(s.rest, classify_prefix(prefix.out)))))

\* str::split_whitespace from index idx on: the maximal runs of bytes that
\* are not whitespace, in order.
RECURSIVE SplitFrom(_, _)
SplitFrom(s, idx) ==
  LET starts == {k \in idx..Len(s) : s[k] \notin Whitespace}
  IN IF starts = {} THEN <<>>
     ELSE LET start == Least(starts)
              stops == {k \in start..Len(s) : s[k] \in Whitespace}
              stop == IF stops = {} THEN Len(s) + 1 ELSE Least(stops)
          IN <<SubSeq(s, start, stop - 1)>> \o SplitFrom(s, stop)

split_whitespace(s) == SplitFrom(s, 1)

\* The closure as it would be if the trailing text were split like the
\* middle params.
build_params_all_split(parsed_params, parsed_trailing) ==
  IF parsed_params.some
  THEN split_whitespace(parsed_params.val) \o split_whitespace(parsed_trailing)
  ELSE split_whitespace(parsed_trailing)

\* The closure as it would be if the line without a ':' kept its text as
\* one param.
build_params_unsplit(parsed_params, parsed_trailing) ==
  IF parsed_params.some
  THEN Append(split_whitespace(parsed_params.val), parsed_trailing)
  ELSE <<parsed_trailing>>

\* The closure of message_parser: the params of the two forms.
build_params(parsed_params, parsed_trailing) ==
  IF parsed_params.some
  THEN Append(split_whitespace(parsed_params.val), parsed_trailing)
  ELSE split_whitespace(parsed_trailing)

\* chain!(prefix_parser? ~ command_parser ~
\*        map_res!(take_until_and_consume!(":"), from_utf8)? ~ eol, ...)
message_parser(i) ==
  OptionalThen(prefix_parser(i), i, LAMBDA parsed_prefix :
    AndThen(command_parser(parsed_prefix.rest), LAMBDA parsed_command :
      OptionalThen(take_until_and_consume(parsed_command.rest, ":"),
                   parsed_command.rest, LAMBDA parsed_params :
        AndThen(eol(parsed_params.rest), LAMBDA parsed_trailing :
          Done(parsed_trailing.rest,
               Message(IF parsed_prefix.some THEN parsed_prefix.val
                       ELSE NoPrefix,
                       parsed_command.out,
                       build_params(parsed_params, parsed_trailing.out)))))))

\* ------------------------------------------------------------ parse_message

Ok(msg) == [kind |-> "Ok", msg |-> msg]
Err(kind) == [kind |-> kind]

\* Done gives Ok; Incomplete gives the "Incomplete: ..." error; Error gives
\* the error built by From<nom::Err> ("Error at position ..."), the
\* Malformed kind.
from_result(r) ==
  IF r.kind = "Done" THEN Ok(r.out)
  ELSE IF r.kind = "Incomplete" THEN Err("Incomplete")
  ELSE Err("Malformed")

parse_message(i) == from_result(message_parser(i))

\* ---------------------------------------------------------------- Display

\* Rust's [&str]::join(sep).
RECURSIVE join(_, _)
join(strs, sep) ==
  IF Len(strs) = 0 THEN <<>>
  ELSE IF Len(strs) = 1 THEN strs[1]
  ELSE strs[1] \o sep \o join(Tail(strs), sep)

\* Display of a u16: its decimal digits, no leading zeros.
RECURSIVE u16_to_string(_)
u16_to_string(n) ==
  IF n < 10 THEN <<DigitChar(n)>>
  ELSE Append(u16_to_string(n \div 10), DigitChar(n % 10))

\* impl Display for Prefix
prefix_to_string(p) ==
  IF p.variant = "User" THEN p.nick \o <<"!">> \o p.user \o <<"@">> \o p.host
  ELSE p.name

\* impl Display for Command
command_to_string(c) ==
  IF c.variant = "Named" THEN c.s ELSE u16_to_string(c.n)

\* to_whitespace_separated as it would be if the space after the prefix
\* were pushed only when a prefix is present.
to_whitespace_separated_glued(msg) ==
  command_to_string(msg.command) \o <<SP>>
    \o (IF msg.prefix.variant # "None"
        THEN prefix_to_string(msg.prefix) \o <<SP>>
        ELSE <<>>)
    \o join(msg.params, <<SP>>)

\* Message::to_whitespace_separated
to_whitespace_separated(msg) ==
  LET ret1 == command_to_string(msg.command) \o <<SP>>
      ret2 == IF msg.prefix.variant # "None"
              THEN ret1 \o prefix_to_string(msg.prefix)
              ELSE ret1
  IN ret2 \o <<SP>> \o join(msg.params, <<SP>>)

\* The loop of Message's Display: each param followed by one space.
RECURSIVE push_params(_, _)
push_params(ret, params) ==
  IF Len(params) = 0 THEN ret
  ELSE push_params(ret \o params[1] \o <<SP>>, Tail(params))

\* impl Display for Message
fmt(msg) ==
  LET ret0 == IF msg.prefix.variant # "None"
              THEN <<":">> \o prefix_to_string(msg.prefix) \o <<SP>>
              ELSE <<>>
  IN push_params(ret0 \o command_to_string(msg.command) \o <<SP>>, msg.params)

\* ----------------------------------------------------------------- inputs

\* Every line of at most MaxLen bytes of the alphabet.
ShortLines == UNION {[1..n -> Alphabet] : n \in 0..MaxLen}

\* tests::test_parsing_line: NOTICE AUTH :*** Looking up your hostname\r
LineNotice ==
  <<"N", "O", "T", "I", "C", "E", SP, "A", "U", "T", "H", SP, ":", "*",
    "*", "*", SP, "L", "o", "o", "k", "i", "n", "g", SP, "u", "p", SP, "y",
    "o", "u", "r", SP, "h", "o", "s", "t", "n", "a", "m", "e", CR>>

\* tests::test_parsing_line_without_trailing: :port80a.se.quakenet.org 004 RustBot port80a.se.quakenet.org u2.10.12.10+snircd(1.3.4a) dioswkgxRXInP biklmnopstvrDcCNuMT bklov\r\n
LineNumeric ==
  <<":", "p", "o", "r", "t", "8", "0", "a", ".", "s", "e", ".", "q", "u",
    "a", "k", "e", "n", "e", "t", ".", "o", "r", "g", SP, "0", "0", "4",
    SP, "R", "u", "s", "t", "B", "o", "t", SP, "p", "o", "r", "t", "8",
    "0", "a", ".", "s", "e", ".", "q", "u", "a", "k", "e", "n", "e", "t",
    ".", "o", "r", "g", SP, "u", "2", ".", "1", "0", ".", "1", "2", ".",
    "1", "0", "+", "s", "n", "i", "r", "c", "d", "(", "1", ".", "3", ".",
    "4", "a", ")", SP, "d", "i", "o", "s", "w", "k", "g", "x", "R", "X",
    "I", "n", "P", SP, "b", "i", "k", "l", "m", "n", "o", "p", "s", "t",
    "v", "r", "D", "c", "C", "N", "u", "M", "T", SP, "b", "k", "l", "o",
    "v", CR, LF>>

\* tests::test_whitespace_separated: :user!host@example.com PRIVMSG #channel :message\r\n
LinePrivmsg ==
  <<":", "u", "s", "e", "r", "!", "h", "o", "s", "t", "@", "e", "x", "a",
    "m", "p", "l", "e", ".", "c", "o", "m", SP, "P", "R", "I", "V", "M",
    "S", "G", SP, "#", "c", "h", "a", "n", "n", "e", "l", SP, ":", "m",
    "e", "s", "s", "a", "g", "e", CR, LF>>

\* tests::test_inline_host: :server.example.com 333 RustBot #channel user!host@example.com 123456789\r\n
LineInlineHost ==
  <<":", "s", "e", "r", "v", "e", "r", ".", "e", "x", "a", "m", "p", "l",
    "e", ".", "c", "o", "m", SP, "3", "3", "3", SP, "R", "u", "s", "t",
    "B", "o", "t", SP, "#", "c", "h", "a", "n", "n", "e", "l", SP, "u",
    "s", "e", "r", "!", "h", "o", "s", "t", "@", "e", "x", "a", "m", "p",
    "l", "e", ".", "c", "o", "m", SP, "1", "2", "3", "4", "5", "6", "7",
    "8", "9", CR, LF>>

\* tests::test_parsing_prefix: :this.represents.a.server.prefix 
LineServerPrefix ==
  <<":", "t", "h", "i", "s", ".", "r", "e", "p", "r", "e", "s", "e", "n",
    "t", "s", ".", "a", ".", "s", "e", "r", "v", "e", "r", ".", "p", "r",
    "e", "f", "i", "x", SP>>

\* tests::test_parsing_host: user!host@example.com 
LineHost ==
  <<"u", "s", "e", "r", "!", "h", "o", "s", "t", "@", "e", "x", "a", "m",
    "p", "l", "e", ".", "c", "o", "m", SP>>

\* A command word with no space after it, with and without the terminator.
LinePing == <<"P", "I", "N", "G">>
LinePingCR == <<"P", "I", "N", "G", CR>>
LinePingArg == <<"P", "I", "N", "G", SP, "a">>

\* A trailing parameter with no terminator.
LineNoticeText ==
  <<"N", "O", "T", "I", "C", "E", SP, "A", "U", "T", "H", SP, ":", "t",
    "e", "x", "t">>

\* Command words around the edges of u16::from_str.
LinePlus == <<"+", "4", SP, "a", CR>>
LineMinus == <<"-", "4", SP, "a", CR>>
LineU16Max == <<"6", "5", "5", "3", "5", SP, "a", CR>>
LineU16Over == <<"6", "5", "5", "3", "6", SP, "a", CR>>

\* A ':' after the first terminator.
LineColonAfterCR == <<"A", SP, "b", CR, LF, ":", "c", CR>>

\* Params parted by a vertical tab and by a form feed.
LineVerticalTab == <<"A", SP, "a", VT, "b", FF, "c", CR>>

\* The same bytes inside the trailing text, which is not split.
LineVerticalTabTrailing == <<"A", SP, "a", VT, "b", SP, ":", "c", VT, "d", CR>>

\* The lines of the tests, and the lines above.
Scenarios ==
  {LineNotice, LineNumeric, LinePrivmsg, LineInlineHost, LineServerPrefix,
   LineHost, LinePing, LinePingCR, LinePingArg, LineNoticeText, LinePlus,
   LineMinus, LineU16Max, LineU16Over, LineColonAfterCR, LineVerticalTab,
   LineVerticalTabTrailing}

\* Line openings with a prefix: a server name, a nick!user@host triple, a
\* word with only one of the two marks, and separators of several bytes.
Heads ==
  {<<":", "a", SP>>,
   <<":", "a", "!", "a", "@", "a", SP>>,
   <<":", "a", "!", "a", SP>>,
   <<":", "a", "@", "a", SP>>,
   <<":", "a", SP, SP>>,
   <<":", "a", "!", "a", "@", "a", SP, TAB>>}

\* A prefix of Heads followed by every body of at most MaxBody bytes.
PrefixedLines ==
  {h \o b : h \in Heads, b \in UNION {[1..n -> Alphabet] : n \in 0..MaxBody}}

Inputs == ShortLines \cup PrefixedLines \cup Scenarios

\* ------------------------------------------------------------ the machine

Nothing == [kind |-> "Nothing"]

\* The caller holds one line; nothing has been decoded yet.
Init ==
  /\ input \in Inputs
  /\ pc = "start"
  /\ result = Nothing
  /\ text = <<>>

\* parse_message(input)
ParseMessage ==
  /\ pc = "start"
  /\ result' = parse_message(input)
  /\ pc' = "parsed"
  /\ UNCHANGED <<input, text>>

\* prefix_parser(input), as tests::test_parsing_prefix calls it.
PrefixParser ==
  /\ pc = "start"
  /\ result' = prefix_parser(input)
  /\ pc' = "prefix"
  /\ UNCHANGED <<input, text>>

\* host_parser(input), as tests::test_parsing_host calls it.
HostParser ==
  /\ pc = "start"
  /\ result' = host_parser(input)
  /\ pc' = "host"
  /\ UNCHANGED <<input, text>>

\* msg.to_whitespace_separated() on a decoded message.
ToWhitespaceSeparated ==
  /\ pc = "parsed"
  /\ result.kind = "Ok"
  /\ text' = to_whitespace_separated(result.msg)
  /\ pc' = "joined"
  /\ UNCHANGED <<input, result>>

\* msg.to_string() on a decoded message.
Fmt ==
  /\ pc = "parsed"
  /\ result.kind = "Ok"
  /\ text' = fmt(result.msg)
  /\ pc' = "displayed"
  /\ UNCHANGED <<input, result>>

Next == ParseMessage \/ PrefixParser \/ HostParser \/ ToWhitespaceSeparated \/ Fmt

Spec == Init /\ [][Next]_vars

\* ------------------------------------------- the renderers on any Message

Names == {<<>>, <<"a">>, <<"a", "4">>}

Prefixes ==
  {NoPrefix} \cup {Server(n) : n \in Names}
    \cup {User(n, u, h) : n \in Names, u \in Names, h \in {<<"a">>}}

Commands ==
  {Named(<<>>), Named(<<"a">>), Named(<<"+", "4">>)}
    \cup {Numeric(n) : n \in {0, 4, 10, 333, U16Max}}

ParamTexts == {<<>>, <<"a">>, <<"a", SP, ":">>}

\* Every Message of these fields with at most MaxParams params (the fields
\* of Message are public).
Messages ==
  {Message(p, c, ps) :
     p \in Prefixes, c \in Commands,
     ps \in UNION {[1..n -> ParamTexts] : n \in 0..MaxParams}}

\* A Message in hand: built from its fields, or decoded from a line.
InitRender ==
  /\ pc = "parsed"
  /\ text = <<>>
  /\ \/ \E m \in Messages : input = <<>> /\ result = Ok(m)
     \/ \E s \in Scenarios :
          /\ parse_message(s).kind = "Ok"
          /\ input = s
          /\ result = parse_message(s)

NextRender == ToWhitespaceSeparated \/ Fmt

SpecRender == InitRender /\ [][NextRender]_vars

\* ================================================================ claims
\* The vocabulary of the claims: the parts of a line as the grammar names
\* them, stated by position and not by running the parsers.

\* The index of the first c in s, or 0.
FirstPos(s, c) ==
  IF \E k \in 1..Len(s) : s[k] = c
  THEN CHOOSE k \in 1..Len(s) : s[k] = c /\ \A j \in 1..(k - 1) : s[j] # c
  ELSE 0

HasByte(s, c) == \E k \in 1..Len(s) : s[k] = c

HasWhitespace(s) == \E k \in 1..Len(s) : s[k] \in Whitespace

\* The line opens with ':' and a word that a space ends.
HasPrefixWord(line) ==
  Len(line) >= 1 /\ line[1] = ":" /\ FirstPos(line, SP) > 0

\* The bytes between the leading ':' and the first space.
PrefixWord(line) == SubSeq(line, 2, FirstPos(line, SP) - 1)

\* The index after the run of ' ' and '\t' that follows the prefix word.
AfterSeparators(line) ==
  IF \A k \in FirstPos(line, SP)..Len(line) : line[k] \in {SP, TAB}
  THEN Len(line) + 1
  ELSE CHOOSE k \in FirstPos(line, SP)..Len(line) :
         /\ line[k] \notin {SP, TAB}
         /\ \A j \in FirstPos(line, SP)..(k - 1) : line[j] \in {SP, TAB}

\* The line without its prefix and separators.
LineBody(line) ==
  IF HasPrefixWord(line)
  THEN SubSeq(line, AfterSeparators(line), Len(line))
  ELSE line

\* A space ends the command token.
HasCommand(line) == FirstPos(LineBody(line), SP) > 0

\* The command token: the bytes of the body before its first space.
CommandToken(line) ==
  SubSeq(LineBody(line), 1, FirstPos(LineBody(line), SP) - 1)

\* The bytes from the end of the command token on.
AfterCommand(line) ==
  SubSeq(LineBody(line), FirstPos(LineBody(line), SP), Len(LineBody(line)))

\* The non-empty whitespace-separated tokens of s, by position: a token
\* starts where a byte that is no whitespace follows whitespace or the start.
TokenStarts(s) ==
  {k \in 1..Len(s) : s[k] \notin Whitespace /\ (k = 1 \/ s[k - 1] \in Whitespace)}

TokenEnd(s, k) ==
  CHOOSE m \in k..Len(s) :
    /\ \A j \in k..m : s[j] \notin Whitespace
    /\ (m = Len(s) \/ s[m + 1] \in Whitespace)

NthStart(s, n) ==
  CHOOSE k \in TokenStarts(s) : Cardinality({j \in TokenStarts(s) : j <= k}) = n

TokensOf(s) ==
  [n \in 1..Cardinality(TokenStarts(s)) |->
     SubSeq(s, NthStart(s, n), TokenEnd(s, NthStart(s, n)))]

\* The word has the form nick '!' user '@' host.
HasUserForm(w) ==
  /\ FirstPos(w, "!") > 0
  /\ HasByte(SubSeq(w, FirstPos(w, "!") + 1, Len(w)), "@")

\* nick: before the first '!'; user: from there to the next '@'; host: the rest.
NickOf(w) == SubSeq(w, 1, FirstPos(w, "!") - 1)
AfterNick(w) == SubSeq(w, FirstPos(w, "!") + 1, Len(w))
UserOf(w) == SubSeq(AfterNick(w), 1, FirstPos(AfterNick(w), "@") - 1)
HostOf(w) == SubSeq(AfterNick(w), FirstPos(AfterNick(w), "@") + 1, Len(AfterNick(w)))

Decoded == pc = "parsed" /\ result.kind = "Ok"

\* ------------------------------------------------------------------- C1

\* C1: every accepted line whose prefix word has the form nick!user@host
\* decodes with prefix User(nick, user, host).
C1_UserPrefixDecoded ==
  (Decoded /\ HasPrefixWord(input) /\ HasUserForm(PrefixWord(input)))
    => result.msg.prefix = User(NickOf(PrefixWord(input)),
                                UserOf(PrefixWord(input)),
                                HostOf(PrefixWord(input)))

\* ------------------------------------------------------------------- C2

\* A ':' follows the command token and comes before the first '\r' after it.
TrailingCase(line) ==
  /\ HasCommand(line)
  /\ FirstPos(AfterCommand(line), ":") > 0
  /\ FirstPos(AfterCommand(line), CR) > FirstPos(AfterCommand(line), ":")

\* C2: in the trailing-parameter form the line decodes, and its params are
\* the whitespace-separated tokens between the command and the first ':',
\* then one last param: the text from that ':' to the first '\r', verbatim.
C2_TrailingForm ==
  (pc = "parsed" /\ TrailingCase(input))
    => /\ result.kind = "Ok"
       /\ result.msg.params =
            TokensOf(SubSeq(AfterCommand(input), 1,
                            FirstPos(AfterCommand(input), ":") - 1))
            \o <<SubSeq(AfterCommand(input),
                        FirstPos(AfterCommand(input), ":") + 1,
                        FirstPos(AfterCommand(input), CR) - 1)>>

\* A line of the trailing form with a middle param and a last param that
\* holds a space has been decoded.
C2_Witness ==
  /\ Decoded
  /\ TrailingCase(input)
  /\ Len(result.msg.params) = 2
  /\ HasByte(result.msg.params[2], SP)

\* ------------------------------------------------------------------- C3

\* A '\r' follows the command token and no ':' comes before it.
NoTrailingCase(line) ==
  /\ HasCommand(line)
  /\ FirstPos(AfterCommand(line), CR) > 0
  /\ ~HasByte(SubSeq(AfterCommand(line), 1, FirstPos(AfterCommand(line), CR)), ":")

\* C3: with no ':' between the command token and the first '\r', the line
\* decodes and its params are the whitespace-separated tokens of the text
\* between the two, whatever bytes follow the '\r'.
C3_NoTrailingForm ==
  (pc = "parsed" /\ NoTrailingCase(input))
    => /\ result.kind = "Ok"
       /\ result.msg.params =
            TokensOf(SubSeq(AfterCommand(input), 1,
                            FirstPos(AfterCommand(input), CR) - 1))

\* ------------------------------------------------------------------- C4

\* C4: an input with no '\r' at all gives an error of the Incomplete kind.
C4_NoTerminatorIsIncomplete ==
  (pc = "parsed" /\ ~HasByte(input, CR)) => result.kind = "Incomplete"

\* ------------------------------------------------------------------- C5

\* The body is a non-empty command word, free of ' ', ':' and '\r', and
\* then '\r' and nothing more.
BareCommand(line) ==
  /\ Len(LineBody(line)) >= 2
  /\ LineBody(line)[Len(LineBody(line))] = CR
  /\ \A k \in 1..(Len(LineBody(line)) - 1) : LineBody(line)[k] \notin {SP, ":", CR}

\* C5: a line CMD '\r' decodes, with the command CMD and no params.
C5_BareCommandDecodes ==
  (pc = "parsed" /\ BareCommand(input))
    => /\ result.kind = "Ok"
       /\ result.msg.params = <<>>
       /\ result.msg.command.variant = "Named"
            => result.msg.command.s = SubSeq(LineBody(input), 1, Len(LineBody(input)) - 1)

\* ------------------------------------------------------------------- C6

AllDigits(tok) == Len(tok) > 0 /\ \A k \in 1..Len(tok) : tok[k] \in Digits

\* The value of a digit string.
RECURSIVE DecimalValue(_)
DecimalValue(tok) ==
  IF Len(tok) = 0 THEN 0
  ELSE 10 * DecimalValue(SubSeq(tok, 1, Len(tok) - 1)) + DigitVal(tok[Len(tok)])

\* C6: the command is Numeric(v) exactly when the command token is all
\* digits with a value v that fits; every other token gives Named(token).
C6_CommandClassification ==
  Decoded
    => IF AllDigits(CommandToken(input)) /\ DecimalValue(CommandToken(input)) <= U16Max
       THEN result.msg.command = Numeric(DecimalValue(CommandToken(input)))
       ELSE result.msg.command = Named(CommandToken(input))

\* ------------------------------------------------------------------- C7

\* The prefix stage has run on ':' word ' ', the word not of the form
\* nick!user@host.
ServerCase ==
  pc = "prefix" /\ HasPrefixWord(input) /\ ~HasUserForm(PrefixWord(input))

\* C7: on ':' word ' ', the word not of the form nick!user@host, the prefix
\* stage yields Server(word), the whole word, and leaves the bytes after the
\* separator, which is the one space after the word; on
\* ":this.represents.a.server.prefix " nothing is left.
C7_RemainderAfterOneSpace ==
  /\ ServerCase
       => result = Done(SubSeq(input, FirstPos(input, SP) + 1, Len(input)),
                        Server(PrefixWord(input)))
  /\ (pc = "prefix" /\ input = LineServerPrefix) => Len(result.rest) = 0

\* ------------------------------------------------------------------- C8

\* The line opens with ':' and holds no space.
NoSpaceCase == pc = "parsed" /\ Len(input) >= 1 /\ input[1] = ":" /\ ~HasByte(input, SP)

\* The decimal digits of n, by place value.
DigitCount(n) == CHOOSE k \in 1..5 : n < 10 ^ k /\ (k = 1 \/ n >= 10 ^ (k - 1))

DecimalOf(n) ==
  [j \in 1..DigitCount(n) |-> DigitChar((n \div (10 ^ (DigitCount(n) - j))) % 10)]

CommandText(c) == IF c.variant = "Numeric" THEN DecimalOf(c.n) ELSE c.s

PrefixText(p) ==
  CASE p.variant = "None" -> <<>>
    [] p.variant = "Server" -> p.name
    [] p.variant = "User" -> p.nick \o <<"!">> \o p.user \o <<"@">> \o p.host

\* The params, each but the first after one space.
RECURSIVE SpacedParams(_)
SpacedParams(ps) ==
  IF Len(ps) = 0 THEN <<>>
  ELSE IF Len(ps) = 1 THEN ps[1]
  ELSE SpacedParams(SubSeq(ps, 1, Len(ps) - 1)) \o <<SP>> \o ps[Len(ps)]

\* "PRIVMSG user!host@example.com #channel message"
PrivmsgJoined ==
  <<"P", "R", "I", "V", "M", "S", "G", SP, "u", "s", "e", "r", "!", "h",
    "o", "s", "t", "@", "e", "x", "a", "m", "p", "l", "e", ".", "c", "o",
    "m", SP, "#", "c", "h", "a", "n", "n", "e", "l", SP, "m", "e", "s",
    "s", "a", "g", "e">>

\* C9: to_whitespace_separated gives the command text, a space, the prefix
\* text (nothing when the prefix is absent), a space, and the params joined
\* by single spaces; on the decode of the PRIVMSG line of the tests it gives
\* "PRIVMSG user!host@example.com #channel message".
C9_WhitespaceSeparated ==
  pc = "joined"
    => /\ text = CommandText(result.msg.command) \o <<SP>>
                   \o PrefixText(result.msg.prefix) \o <<SP>>
                   \o SpacedParams(result.msg.params)
       /\ input = LinePrivmsg => text = PrivmsgJoined

\* The decode of the PRIVMSG line has been rendered.
C9_Witness == pc = "joined" /\ input = LinePrivmsg /\ text = PrivmsgJoined

\* ------------------------------------------------------------------ C10

\* The decoder took the trailing-parameter form: a ':' follows the command
\* token.
TrailingMarker(line) == HasCommand(line) /\ HasByte(AfterCommand(line), ":")

\* C10: in every decoded Message each param but the last is non-empty and
\* free of whitespace, the last is empty or holds whitespace only in the
\* trailing-parameter form, and no param holds '\r'.
C10_ParamsInvariant ==
  Decoded
    => /\ \A k \in 1..(Len(result.msg.params) - 1) :
            /\ result.msg.params[k] # <<>>
            /\ ~HasWhitespace(result.msg.params[k])
       /\ \A k \in 1..Len(result.msg.params) : ~HasByte(result.msg.params[k], CR)
       /\ (/\ Len(result.msg.params) > 0
           /\ \/ result.msg.params[Len(result.msg.params)] = <<>>
              \/ HasWhitespace(result.msg.params[Len(result.msg.params)]))
            => TrailingMarker(input)

\* A line has been decoded into a middle param and an empty last param.
C10_Witness ==
  /\ Decoded
  /\ Len(result.msg.params) = 2
  /\ result.msg.params[1] # <<>>
  /\ result.msg.params[2] = <<>>

====
